---------------------------- MODULE Spec2Model ----------------------------
(***************************************************************************)
(* JblConnection (src/lib/JblConnection.ts): the command queue, the socket *)
(* lifecycle and the reconnect policy of the receiver connection, with     *)
(* the frame parser of JblProtocol it feeds on.                            *)
(*                                                                         *)
(* One action is one callback of the single-threaded event loop: a caller  *)
(* call (connect, disconnect, sendCommand/query/sendRC5), a timer callback *)
(* (command timeout, promotion delay, heartbeat, reconnect, connect        *)
(* timeout) or a socket event (connect, data, error, close).               *)
(***************************************************************************)
EXTENDS Integers, Sequences, FiniteSets, TLC

\* ---------------------------------------------------------------- bounds
MaxReq == 3         \* Spec: requests submitted in one behaviour
QueueSock == 1      \* Spec: connect() calls whose socket or timer is alive
QueueAttempts == 1  \* Spec: cap of the reconnect attempt counter
LifeReq == 1        \* LifeSpec: requests submitted in one behaviour
FairReq == 2        \* FairSpec: requests submitted in one behaviour
MaxSock == 2        \* LifeSpec: connect() calls whose socket or timer is alive
MaxAttempts == 2    \* LifeSpec: cap of the reconnect attempt counter
BackoffSock == 2    \* BackoffSpec: connect() calls whose socket or timer is alive
MaxBackoff == 7     \* BackoffSpec: cap of the reconnect attempt counter
RetrySock == 2      \* RetrySpec: connect() calls whose socket or timer is alive
RetryAttempts == 2  \* RetrySpec: cap of the reconnect attempt counter
TestReq == 2        \* TestSpec: requests submitted in one behaviour
TestSock == 2       \* TestSpec: connect() calls whose socket or timer is alive
TestAttempts == 1   \* TestSpec: cap of the reconnect attempt counter
RecvReq == 1        \* ReceiveSpec: requests submitted in one behaviour
RecvSock == 1       \* ReceiveSpec: connect() calls whose socket or timer is alive
MaxFrames == 1      \* ReceiveSpec: frames the device sends back to back
MaxBuf == 16        \* bytes the receive buffer may hold
MaxWriteFail == 1   \* socket.write calls that throw within one processQueue
MaxPayload == 2     \* CodecSpec: data bytes of a built command
MaxGarbage == 2     \* CodecSpec: bytes in front of a frame handed to parseResponse
FloodBlock == 256   \* FloodSpec: bytes of line noise in one data event
MaxBurst == 2       \* BurstSpec: frames one data event carries
MaxValue == 128     \* CodecSpec: magnitude of a value handed to encodeSignedValue

\* ------------------------------------------------------ program constants
STX == 33
ETX == 13
ErrorFloor == 130
ReconnectDelay == 3000
MaxReconnectDelay == 60000
MinFrame == 6
REQUEST == 240
SIMULATE_RC5 == 8
MASTER == 1
HEARTBEAT == 37
SignBit == 128
SignedMax == 127

VARIABLES
  sockets,               \* per connect() call: its net.Socket and its closure
  socket,                \* this.socket: a slot of sockets, 0 for null
  connected,             \* this._connected
  intentionalDisconnect, \* this.intentionalDisconnect
  reconnectAttempts,     \* this.reconnectAttempts
  reconnectTimer,        \* this.reconnectTimer and the delay it was armed with
  heartbeatTimer,        \* this.heartbeatTimer, and the intervals it lost
  receiveBuffer,         \* this.receiveBuffer
  commandQueue,          \* this.commandQueue: request ids, head first
  currentCommand,        \* this.currentCommand: a request id, 0 for null
  reqs,                  \* per request: its timer armed, and how often
                         \* its resolve or reject has been invoked
  nextReq,               \* the id the next submitted request gets
  wire,                  \* the request ids written to the socket, in order
  promoTimers,           \* pending setTimeout(() => processQueue(), 50)
  called,                \* the resolve and reject calls of the last handler
  emitted,               \* the events the last handler emitted, in order
  test,                  \* the testConnection() call: where it is suspended
  arg,                   \* the arguments of a call of a JblProtocol function
  ret                    \* what that call returned

vars == <<sockets, socket, connected, intentionalDisconnect, reconnectAttempts,
          reconnectTimer, heartbeatTimer, receiveBuffer, commandQueue,
          currentCommand, reqs, nextReq, wire, promoTimers, called, emitted,
          test, arg, ret>>

\* The state of the JblConnection object and of its sockets and timers.
vars_connection ==
  <<sockets, socket, connected, intentionalDisconnect, reconnectAttempts,
    reconnectTimer, heartbeatTimer, receiveBuffer, commandQueue, currentCommand,
    reqs, nextReq, wire, promoTimers, called, emitted>>

\* What no callback of the connection touches.
idle == <<test, arg, ret>>

Socks == 1..MaxSock
Reqs == 1..MaxReq

\* ---------------------------------------------------------------- helpers
Min(a, b) == IF a <= b THEN a ELSE b

RECURSIVE Pow2(_)
Pow2(n) == IF n = 0 THEN 1 ELSE 2 * Pow2(n - 1)

Ev(e, a, d) == [e |-> e, attempt |-> a, delay |-> d]

Emits(e) == \E i \in 1..Len(emitted) : emitted[i].e = e

FreeSock == [st |-> "free", lis |-> FALSE, ct |-> FALSE, dw |-> FALSE]

NewReq == [timer |-> FALSE, calls |-> 0]

NullTimer == [st |-> "null", delay |-> 0]

\* No testConnection() call is running.
NoTest == [pc |-> "idle", sock |-> 0, req |-> 0, result |-> FALSE]

\* No JblProtocol function is being called.
NoCall == [fn |-> "none"]


\* ------------------------------------------------------------ JblProtocol
\* Buffer.indexOf(b), 1-based; 0 when b is absent.
IndexOf(buf, b) ==
  IF \E i \in 1..Len(buf) : buf[i] = b
  THEN CHOOSE i \in 1..Len(buf) : buf[i] = b /\ \A j \in 1..(i - 1) : buf[j] # b
  ELSE 0

NoResponse == [found |-> FALSE, zone |-> 0, command |-> 0, answer |-> 0,
               data |-> <<>>, bytesConsumed |-> 0]

\* parseResponse that slices the data one byte early.
RECURSIVE parseResponseDataEarly(_)
parseResponseDataEarly(buf) ==
  LET i == IndexOf(buf, STX) IN
  IF i = 0 THEN NoResponse
  ELSE IF Len(buf) - (i - 1) < MinFrame THEN NoResponse
  ELSE LET dataLength == buf[i + 4]
           totalLength == 5 + dataLength + 1
       IN IF Len(buf) - (i - 1) < totalLength THEN NoResponse
          ELSE IF buf[(i - 1) + totalLength] # ETX
               THEN parseResponseDataEarly(SubSeq(buf, i + 1, Len(buf)))
               ELSE [found |-> TRUE, zone |-> buf[i + 1], command |-> buf[i + 2],
                     answer |-> buf[i + 3],
                     data |-> SubSeq(buf, i + 4, i + 3 + dataLength),
                     bytesConsumed |-> (i - 1) + totalLength]

\* parseResponse: i is startIdx + 1. The retry after a bad end byte returns
\* the inner call's result as it is, bytesConsumed included.
RECURSIVE parseResponse(_)
parseResponse(buf) ==
  LET i == IndexOf(buf, STX) IN
  IF i = 0 THEN NoResponse
  ELSE IF Len(buf) - (i - 1) < MinFrame THEN NoResponse
  ELSE LET zone == buf[i + 1]
           command == buf[i + 2]
           answer == buf[i + 3]
           dataLength == buf[i + 4]
           totalLength == 5 + dataLength + 1
       IN IF Len(buf) - (i - 1) < totalLength THEN NoResponse
          ELSE IF buf[(i - 1) + totalLength] # ETX
               THEN parseResponse(SubSeq(buf, i + 1, Len(buf)))
               ELSE [found |-> TRUE, zone |-> zone, command |-> command,
                     answer |-> answer,
                     data |-> SubSeq(buf, i + 5, i + 4 + dataLength),
                     bytesConsumed |-> (i - 1) + totalLength]

\* isError with > for >=.
isErrorAbove(response) == response.answer > ErrorFloor

isError(response) == response.answer >= ErrorFloor

\* Buffer.from(array): every entry is stored as a byte.
BufferFrom(array) == [i \in 1..Len(array) |-> array[i] % 256]

\* buildCommand without the length byte.
buildCommandNoLength(zone, cmd, data) ==
  BufferFrom(<<STX, zone, cmd>> \o data \o <<ETX>>)

buildCommand(zone, cmd, data) ==
  BufferFrom(<<STX, zone, cmd, Len(data)>> \o data \o <<ETX>>)

buildQuery(zone, cmd) == buildCommand(zone, cmd, <<REQUEST>>)

buildRC5(zone, system, command) ==
  buildCommand(zone, SIMULATE_RC5, <<system, command>>)

\* Number.prototype.toString(16)
HexDigit(d) ==
  <<"0", "1", "2", "3", "4", "5", "6", "7", "8", "9", "a", "b", "c", "d", "e", "f">>[d + 1]

RECURSIVE toString16(_)
toString16(n) ==
  IF n < 16 THEN HexDigit(n) ELSE toString16(n \div 16) \o HexDigit(n % 16)

errorMessage(answer) ==
  CASE answer = 130 -> "Zone invalid"
    [] answer = 131 -> "Command not recognised"
    [] answer = 132 -> "Parameter not recognised"
    [] answer = 133 -> "Command invalid at this time"
    [] answer = 134 -> "Invalid data length"
    [] OTHER -> "Unknown error (0x" \o toString16(answer) \o ")"

\* Math.abs
Abs(value) == IF value < 0 THEN -value ELSE value

encodeSignedValue(value) ==
  IF value >= 0 THEN value ELSE SignBit + Abs(value)

\* decodeSignedValue with < for <=.
decodeSignedValueBelow(byte) ==
  IF byte < SignedMax THEN byte ELSE -(byte - SignBit)

decodeSignedValue(byte) ==
  IF byte <= SignedMax THEN byte ELSE -(byte - SignBit)

\* ---------------------------------------------------------- command queue
\* The queue state the queue operations work on: the queue, the in-flight
\* request, the requests, the ids written and the callbacks invoked so far
\* by the running handler.
QState(q, cur, rq, w, cl) ==
  [q |-> q, cur |-> cur, rq |-> rq, wire |-> w, called |-> cl]

\* resolve or reject of request r is invoked with `what`.
Settle(S, r, what) ==
  [S EXCEPT !.rq = [@ EXCEPT ![r].calls = @ + 1],
            !.called = Append(@, [r |-> r, what |-> what])]

\* resolve of request r is invoked with a response.
Resolve(S, r, response) ==
  [S EXCEPT !.rq = [@ EXCEPT ![r].calls = @ + 1],
            !.called = Append(@, [r |-> r, what |-> "resolved", resp |-> response])]

\* resolve or reject of the promise that connect() call s returned, or of the
\* promise of the disconnect() call that closes the socket of connect() call s
\* (0: no socket).
Promise(what, s) == [r |-> 0, what |-> what, sock |-> s]

\* clearTimeout(request r's timer)
ClearTimeout(S, r) == [S EXCEPT !.rq = [@ EXCEPT ![r].timer = FALSE]]

\* processQueue without its first guard: it promotes over a request in flight.
processQueueNoGuard(S, conn, sock, k) ==
  IF Len(S.q) = 0 \/ ~conn \/ sock = 0 THEN S
  ELSE [S EXCEPT !.q = Tail(S.q), !.cur = Head(S.q), !.wire = Append(@, Head(S.q))]

\* processQueue whose catch clause clears the timer and forgets to reject.
RECURSIVE processQueueDropOnThrow(_, _, _, _)
processQueueDropOnThrow(S, conn, sock, k) ==
  IF S.cur # 0 \/ Len(S.q) = 0 \/ ~conn \/ sock = 0 THEN S
  ELSE IF k > 0
       THEN processQueueDropOnThrow(
              [ClearTimeout(S, Head(S.q)) EXCEPT !.q = Tail(S.q)], conn, sock, k - 1)
       ELSE [S EXCEPT !.q = Tail(S.q), !.cur = Head(S.q),
                      !.wire = Append(@, Head(S.q))]

\* processQueue without its third guard: it writes whether or not the
\* connection is up.
processQueueUnconnected(S, conn, sock, k) ==
  IF S.cur # 0 \/ Len(S.q) = 0 THEN S
  ELSE [S EXCEPT !.q = Tail(S.q), !.cur = Head(S.q), !.wire = Append(@, Head(S.q))]

\* processQueue, with k the number of socket.write calls that throw.
RECURSIVE processQueue(_, _, _, _)
processQueue(S, conn, sock, k) ==
  IF S.cur # 0 THEN S
  ELSE IF Len(S.q) = 0 THEN S
  ELSE IF ~conn \/ sock = 0 THEN S
  ELSE LET h == Head(S.q)
           S1 == [S EXCEPT !.q = Tail(S.q), !.cur = h]
       IN IF k > 0
          THEN processQueue(
                 [Settle(ClearTimeout(S1, h), h, "write error") EXCEPT !.cur = 0],
                 conn, sock, k - 1)
          ELSE [S1 EXCEPT !.wire = Append(@, h)]

\* The for loop of rejectPending over the queue.
RECURSIVE RejectAll(_, _, _)
RejectAll(S, q, reason) ==
  IF q = <<>> THEN S
  ELSE RejectAll(Settle(ClearTimeout(S, Head(q)), Head(q), reason), Tail(q), reason)

\* rejectPending that rejects without clearing the timers.
RECURSIVE RejectAllKeepTimers(_, _, _)
RejectAllKeepTimers(S, q, reason) ==
  IF q = <<>> THEN S
  ELSE RejectAllKeepTimers(Settle(S, Head(q), reason), Tail(q), reason)

rejectPendingKeepTimers(S, reason) ==
  LET S1 == IF S.cur # 0
            THEN [Settle(S, S.cur, reason) EXCEPT !.cur = 0]
            ELSE S
  IN [RejectAllKeepTimers(S1, S1.q, reason) EXCEPT !.q = <<>>]

\* rejectPending that rejects the in-flight request and leaves the queue.
rejectPendingCurrentOnly(S, reason) ==
  IF S.cur # 0
  THEN [Settle(ClearTimeout(S, S.cur), S.cur, reason) EXCEPT !.cur = 0]
  ELSE S

\* rejectPending(reason): the in-flight request first, then the queue in order.
rejectPending(S, reason) ==
  LET S1 == IF S.cur # 0
            THEN [Settle(ClearTimeout(S, S.cur), S.cur, reason) EXCEPT !.cur = 0]
            ELSE S
  IN [RejectAll(S1, S1.q, reason) EXCEPT !.q = <<>>]

\* commandQueue.splice(idx, 1) at the index of request r, when it is queued.
Remove(q, r) == SelectSeq(q, LAMBDA x : x # r)

\* -------------------------------------------------------------- receiving
BufferCeiling == 1024

\* The response object of a parse result.
Response(result) ==
  [zone |-> result.zone, command |-> result.command, answer |-> result.answer,
   data |-> result.data]

\* What a parsed frame does to the in-flight request r.
FrameOutcome(S, r, result) ==
  IF isError(Response(result))
  THEN Settle(S, r, errorMessage(result.answer))
  ELSE Resolve(S, r, Response(result))

\* emit('status', response)
Status(response) == [e |-> "status", attempt |-> 0, delay |-> 0, resp |-> response]

\* An onData loop that also emits 'status' for the frame that settles the
\* request in flight.
RECURSIVE DeliverFramesBoth(_)
DeliverFramesBoth(D) ==
  LET result == parseResponse(D.buf) IN
  IF ~result.found THEN D
  ELSE LET rest == SubSeq(D.buf, result.bytesConsumed + 1, Len(D.buf)) IN
       IF D.S.cur # 0
       THEN DeliverFramesBoth(
              [D EXCEPT !.buf = rest,
                        !.S = [FrameOutcome(ClearTimeout(D.S, D.S.cur), D.S.cur,
                                            result) EXCEPT !.cur = 0],
                        !.promo = @ + 1,
                        !.em = Append(@, Status(Response(result)))])
       ELSE DeliverFramesBoth(
              [D EXCEPT !.buf = rest, !.em = Append(@, Status(Response(result)))])

\* An onData loop that promotes the next request as soon as a frame has
\* settled the one in flight, instead of arming the 50 ms timer.
RECURSIVE DeliverFramesPromoteNow(_)
DeliverFramesPromoteNow(D) ==
  LET result == parseResponse(D.buf) IN
  IF ~result.found THEN D
  ELSE LET rest == SubSeq(D.buf, result.bytesConsumed + 1, Len(D.buf)) IN
       IF D.S.cur # 0
       THEN DeliverFramesPromoteNow(
              [D EXCEPT !.buf = rest,
                        !.S = processQueue(
                                [FrameOutcome(ClearTimeout(D.S, D.S.cur), D.S.cur,
                                              result) EXCEPT !.cur = 0],
                                TRUE, 1, 0)])
       ELSE DeliverFramesPromoteNow(
              [D EXCEPT !.buf = rest, !.em = Append(@, Status(Response(result)))])

\* The while loop of onData, on the queue state S, the receive buffer, the
\* pending promotion timers and the events emitted: one round per frame.
RECURSIVE DeliverFrames(_)
DeliverFrames(D) ==
  LET result == parseResponse(D.buf) IN
  IF ~result.found THEN D
  ELSE LET rest == SubSeq(D.buf, result.bytesConsumed + 1, Len(D.buf)) IN
       IF D.S.cur # 0
       THEN DeliverFrames(
              [D EXCEPT !.buf = rest,
                        !.S = [FrameOutcome(ClearTimeout(D.S, D.S.cur), D.S.cur,
                                            result) EXCEPT !.cur = 0],
                        !.promo = @ + 1])
       ELSE DeliverFrames(
              [D EXCEPT !.buf = rest, !.em = Append(@, Status(Response(result)))])

\* onData that throws away what it could not parse.
onDataDropPartial(S, buf, promo, data) ==
  [DeliverFrames([S |-> S, buf |-> buf \o data, promo |-> promo, em |-> <<>>])
     EXCEPT !.buf = <<>>]

\* onData without the ceiling on what is left in the buffer.
onDataNoCeiling(S, buf, promo, data) ==
  DeliverFrames([S |-> S, buf |-> buf \o data, promo |-> promo, em |-> <<>>])

onData(S, buf, promo, data) ==
  LET R == DeliverFrames([S |-> S, buf |-> buf \o data, promo |-> promo, em |-> <<>>])
  IN IF Len(R.buf) > BufferCeiling THEN [R EXCEPT !.buf = <<>>] ELSE R

\* ----------------------------------------------------------------- sockets
\* socket.destroy(): a socket that is connecting or open is torn down and its
\* 'close' event is pending; on any other socket it does nothing.
Destroy(socks, s) ==
  IF socks[s].st \in {"connecting", "open"}
  THEN [socks EXCEPT ![s].st = "closing"]
  ELSE socks

\* socket.removeAllListeners()
RemoveAllListeners(socks, s) == [socks EXCEPT ![s].lis = FALSE, ![s].dw = FALSE]

\* A connect() call nothing can run for any more: its socket is not this.socket
\* and has no listener left (removed, or the socket has closed), its connect
\* timer is not armed, and testConnection() does not await its promise.
Dead(socks, cur, s) ==
  /\ s # cur
  /\ ~socks[s].ct
  /\ ~socks[s].lis
  /\ ~(test.pc = "connect" /\ test.sock = s)

Reap(socks, cur) ==
  [s \in Socks |-> IF Dead(socks, cur, s) THEN FreeSock ELSE socks[s]]

\* new net.Socket(): the first unused slot among the first n.
HasFree(socks, n) == \E s \in 1..n : socks[s].st = "free"

FirstFree(socks, n) ==
  CHOOSE s \in 1..n : socks[s].st = "free" /\ \A t \in 1..(s - 1) : socks[t].st # "free"

\* ---------------------------------------------------------------- reconnect
\* The delay without the cap.
DelayUncapped(attempts) == ReconnectDelay * Pow2(attempts)

Delay(attempts) == Min(ReconnectDelay * Pow2(attempts), MaxReconnectDelay)

\* this.reconnectTimer holds at most one timer. A pending timer that the
\* field no longer refers to is counted in an extra field, stale, which is
\* absent while there is none.
Stale(timer) == IF "stale" \in DOMAIN timer THEN timer.stale ELSE 0

WithStale(st, delay, n) ==
  IF n = 0 THEN [st |-> st, delay |-> delay]
  ELSE [st |-> st, delay |-> delay, stale |-> n]

\* clearReconnect: clearTimeout of the timer the field refers to.
clearReconnect(timer) == WithStale("null", 0, Stale(timer))

\* this.reconnectTimer = setTimeout(..., delay): a timer the field referred
\* to and that is still pending stays pending.
SetReconnectTimer(timer, delay) ==
  WithStale("armed", delay, Stale(timer) + (IF timer.st = "armed" THEN 1 ELSE 0))

\* scheduleReconnect without clearReconnect().
scheduleReconnectNoClear(attempts, timer) ==
  [attempts |-> attempts + 1,
   timer |-> SetReconnectTimer(timer, Delay(attempts)),
   em |-> <<Ev("reconnecting", attempts + 1, Delay(attempts))>>]

\* scheduleReconnect: the new attempt counter, the timer and the event.
scheduleReconnect(attempts, timer) ==
  [attempts |-> attempts + 1,
   timer |-> SetReconnectTimer(clearReconnect(timer), Delay(attempts)),
   em |-> <<Ev("reconnecting", attempts + 1, Delay(attempts))>>]

\* ---------------------------------------------------------------- heartbeat
\* this.heartbeatTimer holds at most one interval: armed says that the field
\* refers to one, stale counts the intervals that are running and that the
\* field no longer refers to.
NoHeartbeat == [armed |-> FALSE, stale |-> 0]

\* stopHeartbeat: clearInterval of the interval the field refers to.
stopHeartbeat(hb) == [hb EXCEPT !.armed = FALSE]

\* this.heartbeatTimer = setInterval(...): an interval the field referred to
\* keeps running.
SetHeartbeatTimer(hb) ==
  [armed |-> TRUE, stale |-> hb.stale + (IF hb.armed THEN 1 ELSE 0)]

\* startHeartbeat without stopHeartbeat().
startHeartbeatNoStop(hb) == SetHeartbeatTimer(hb)

startHeartbeat(hb) == SetHeartbeatTimer(stopHeartbeat(hb))

\* ------------------------------------------------------- handlers (bodies)
\* enqueue that puts the request at the head of the queue (unshift for push).
enqueueFront(S, r, conn, sock, k) ==
  processQueue(
    [S EXCEPT !.q = <<r>> \o @, !.rq = [@ EXCEPT ![r].timer = TRUE]],
    conn, sock, k)

\* enqueue: arm the timer of request r, push it, processQueue.
enqueue(S, r, conn, sock, k) ==
  processQueue(
    [S EXCEPT !.q = Append(@, r), !.rq = [@ EXCEPT ![r].timer = TRUE]],
    conn, sock, k)

\* A timeout callback that rejects and leaves the request in flight.
commandTimeoutKeepCurrent(S, r, conn, sock, k) ==
  Settle([ClearTimeout(S, r) EXCEPT !.q = Remove(@, r)], r, "Command timeout")

\* The timeout callback of request r.
commandTimeout(S, r, conn, sock, k) ==
  LET S1 == [ClearTimeout(S, r) EXCEPT !.q = Remove(@, r)]
      S2 == IF S1.cur = r
            THEN processQueue([S1 EXCEPT !.cur = 0], conn, sock, k)
            ELSE S1
  IN Settle(S2, r, "Command timeout")

\* A 'close' handler that schedules a reconnect only after an established
\* connection.
onCloseIfWasConnected(S, conn, hb, intentional, attempts, timer) ==
  LET sched == scheduleReconnect(attempts, timer)
      skip == intentional \/ ~conn
  IN [S |-> rejectPending(S, "Connection closed"),
      connected |-> FALSE,
      heartbeat |-> stopHeartbeat(hb),
      attempts |-> IF skip THEN attempts ELSE sched.attempts,
      timer |-> IF skip THEN timer ELSE sched.timer,
      em |-> (IF conn THEN <<Ev("disconnected", 0, 0)>> ELSE <<>>)
             \o (IF skip THEN <<>> ELSE sched.em)]

\* The socket 'close' handler registered by connect().
onClose(S, conn, hb, intentional, attempts, timer) ==
  LET sched == scheduleReconnect(attempts, timer) IN
  [S |-> rejectPending(S, "Connection closed"),
   connected |-> FALSE,
   heartbeat |-> stopHeartbeat(hb),
   attempts |-> IF intentional THEN attempts ELSE sched.attempts,
   timer |-> IF intentional THEN timer ELSE sched.timer,
   em |-> (IF conn THEN <<Ev("disconnected", 0, 0)>> ELSE <<>>)
          \o (IF intentional THEN <<>> ELSE sched.em)]

\* disconnect() without clearReconnect().
onDisconnectKeepTimer(S) ==
  [S |-> rejectPending(S, "Disconnecting"),
   intentional |-> TRUE,
   heartbeat |-> stopHeartbeat(heartbeatTimer),
   timer |-> reconnectTimer]

\* The synchronous part of disconnect() before the promise.
onDisconnect(S) ==
  [S |-> rejectPending(S, "Disconnecting"),
   intentional |-> TRUE,
   heartbeat |-> stopHeartbeat(heartbeatTimer),
   timer |-> clearReconnect(reconnectTimer)]

\* ------------------------------------------------------------------- state
CurQ == QState(commandQueue, currentCommand, reqs, wire, <<>>)

SetQ(S) ==
  /\ commandQueue' = S.q
  /\ currentCommand' = S.cur
  /\ reqs' = S.rq
  /\ wire' = S.wire
  /\ called' = S.called

qvars == <<commandQueue, currentCommand, reqs, wire>>

Constructed ==
  /\ sockets = [s \in Socks |-> FreeSock]
  /\ socket = 0
  /\ connected = FALSE
  /\ intentionalDisconnect = FALSE
  /\ reconnectAttempts = 0
  /\ reconnectTimer = NullTimer
  /\ heartbeatTimer = NoHeartbeat
  /\ receiveBuffer = <<>>
  /\ commandQueue = <<>>
  /\ currentCommand = 0
  /\ reqs = [r \in Reqs |-> NewReq]
  /\ nextReq = 1
  /\ wire = <<>>
  /\ promoTimers = 0
  /\ called = <<>>
  /\ emitted = <<>>

Init ==
  /\ Constructed
  /\ test = NoTest
  /\ arg = NoCall
  /\ ret = NoCall

\* ------------------------------------------------------------ caller calls
\* connect(): drop the old socket, create and connect a new one.
ConnectBody(sockCap) ==
  LET old == IF socket # 0
             THEN Destroy(RemoveAllListeners(sockets, socket), socket)
             ELSE sockets
      live == Reap(old, 0)
  IN /\ HasFree(live, sockCap)
     /\ sockets' = [live EXCEPT ![FirstFree(live, sockCap)] =
                      [st |-> "connecting", lis |-> TRUE, ct |-> TRUE, dw |-> FALSE]]
     /\ socket' = FirstFree(live, sockCap)
     /\ intentionalDisconnect' = FALSE

\* A connect() call, whoever makes it.
ConnectCall(sockCap) ==
  /\ ConnectBody(sockCap)
  /\ emitted' = <<>>
  /\ called' = <<>>
  /\ UNCHANGED <<connected, reconnectAttempts, reconnectTimer, heartbeatTimer,
                 receiveBuffer, qvars, nextReq, promoTimers>>

Connect(sockCap) ==
  /\ ConnectCall(sockCap)
  /\ UNCHANGED idle

\* A disconnect() call, whoever makes it.
DisconnectCall ==
  LET d == onDisconnect(CurQ) IN
  /\ intentionalDisconnect' = d.intentional
  /\ heartbeatTimer' = d.heartbeat
  /\ reconnectTimer' = d.timer
  /\ IF socket = 0
     THEN /\ connected' = FALSE
          /\ SetQ([d.S EXCEPT !.called = Append(@, Promise("disconnect resolved", 0))])
          /\ UNCHANGED <<sockets, socket>>
     ELSE /\ sockets' = Reap(Destroy([sockets EXCEPT ![socket].dw = TRUE], socket), 0)
          /\ socket' = 0
          /\ SetQ(d.S)
          /\ UNCHANGED connected
  /\ emitted' = <<>>
  /\ UNCHANGED <<reconnectAttempts, receiveBuffer, nextReq, promoTimers>>

\* disconnect()
Disconnect ==
  /\ DisconnectCall
  /\ UNCHANGED idle

\* A sendCommand / query / sendRC5 call, whoever makes it: all three encode
\* and enqueue.
EnqueueCall(k, reqCap) ==
  /\ nextReq <= reqCap
  /\ SetQ(enqueue(CurQ, nextReq, connected, socket, k))
  /\ nextReq' = nextReq + 1
  /\ emitted' = <<>>
  /\ UNCHANGED <<sockets, socket, connected, intentionalDisconnect,
                 reconnectAttempts, reconnectTimer, heartbeatTimer,
                 receiveBuffer, promoTimers>>

\* sendCommand / query / sendRC5
Submit(k, reqCap) ==
  /\ EnqueueCall(k, reqCap)
  /\ UNCHANGED idle

\* ---------------------------------------------------------- testConnection
\* testConnection() runs from one await to the next. Its continuation after an
\* await is a microtask: it runs when the handler that settled the awaited
\* promise returns, before any other callback.

\* The awaited connect() promise has been resolved.
ConnectResolved ==
  /\ test.pc = "connect"
  /\ \E i \in 1..Len(called) : called[i] = Promise("connect resolved", test.sock)

\* The awaited connect() promise has been rejected.
ConnectRejected ==
  /\ test.pc = "connect"
  /\ \E i \in 1..Len(called) : called[i] = Promise("Connection timeout", test.sock)

\* The awaited heartbeat query has been resolved or rejected.
QuerySettled ==
  /\ test.pc = "query"
  /\ \E i \in 1..Len(called) : called[i].r = test.req

\* !isError(response) when the query resolved; the catch clause otherwise.
QueryResult ==
  \E i \in 1..Len(called) :
    /\ called[i].r = test.req
    /\ called[i].what = "resolved"
    /\ ~isError(called[i].resp)

\* The awaited disconnect() promise has been resolved.
DisconnectResolved ==
  /\ test.pc = "disconnect"
  /\ \E i \in 1..Len(called) : called[i] = Promise("disconnect resolved", test.sock)

\* A continuation of testConnection() is ready to run.
Resumable ==
  ConnectResolved \/ ConnectRejected \/ QuerySettled \/ DisconnectResolved

\* testConnection() is called on a new JblConnection: it runs into connect().
TestStart(sockCap) ==
  /\ test.pc = "idle"
  /\ socket = 0
  /\ ConnectCall(sockCap)
  /\ test' = [test EXCEPT !.pc = "connect", !.sock = socket']
  /\ UNCHANGED <<arg, ret>>

\* The finally clause: disconnect(), with the value to return.
TestFinally(result) ==
  /\ DisconnectCall
  /\ test' = [test EXCEPT !.pc = "disconnect", !.sock = socket, !.result = result]
  /\ UNCHANGED <<arg, ret>>

\* testConnection() continues after its await.
TestResume(k, reqCap) ==
  \/ /\ ConnectResolved
     /\ EnqueueCall(k, reqCap)
     /\ test' = [test EXCEPT !.pc = "query", !.req = nextReq]
     /\ UNCHANGED <<arg, ret>>
  \/ /\ ConnectRejected
     /\ TestFinally(FALSE)
  \/ /\ QuerySettled
     /\ TestFinally(QueryResult)
  \/ /\ DisconnectResolved
     /\ test' = [test EXCEPT !.pc = "done"]
     /\ UNCHANGED <<vars_connection, arg, ret>>

\* ---------------------------------------------------------------- timers
\* A timeout callback that also takes the connection for lost.
CommandTimeoutDisconnects(r, k) ==
  /\ reqs[r].timer
  /\ SetQ(commandTimeout(CurQ, r, connected, socket, k))
  /\ connected' = FALSE
  /\ emitted' = <<Ev("disconnected", 0, 0)>>
  /\ UNCHANGED idle
  /\ UNCHANGED <<sockets, socket, intentionalDisconnect, reconnectAttempts,
                 reconnectTimer, heartbeatTimer, receiveBuffer, nextReq,
                 promoTimers>>

CommandTimeout(r, k) ==
  /\ reqs[r].timer
  /\ SetQ(commandTimeout(CurQ, r, connected, socket, k))
  /\ emitted' = <<>>
  /\ UNCHANGED idle
  /\ UNCHANGED <<sockets, socket, connected, intentionalDisconnect,
                 reconnectAttempts, reconnectTimer, heartbeatTimer,
                 receiveBuffer, nextReq, promoTimers>>

\* setTimeout(() => this.processQueue(), 50) fires.
Promote(k) ==
  /\ promoTimers > 0
  /\ promoTimers' = promoTimers - 1
  /\ SetQ(processQueue(CurQ, connected, socket, k))
  /\ emitted' = <<>>
  /\ UNCHANGED idle
  /\ UNCHANGED <<sockets, socket, connected, intentionalDisconnect,
                 reconnectAttempts, reconnectTimer, heartbeatTimer,
                 receiveBuffer, nextReq>>

\* A heartbeat interval fires: query(MASTER, HEARTBEAT), its rejection caught.
Heartbeat(k, reqCap) ==
  /\ (heartbeatTimer.armed \/ heartbeatTimer.stale > 0)
  /\ nextReq <= reqCap
  /\ SetQ(enqueue(CurQ, nextReq, connected, socket, k))
  /\ nextReq' = nextReq + 1
  /\ emitted' = <<>>
  /\ UNCHANGED idle
  /\ UNCHANGED <<sockets, socket, connected, intentionalDisconnect,
                 reconnectAttempts, reconnectTimer, heartbeatTimer,
                 receiveBuffer, promoTimers>>

\* The reconnect timer fires: connect(), its rejection caught.
ReconnectFire(sockCap) ==
  /\ reconnectTimer.st = "armed"
  /\ reconnectTimer' = WithStale("null", 0, Stale(reconnectTimer))
  /\ ConnectBody(sockCap)
  /\ emitted' = <<>>
  /\ called' = <<>>
  /\ UNCHANGED idle
  /\ UNCHANGED <<connected, reconnectAttempts, heartbeatTimer,
                 receiveBuffer, qvars, nextReq, promoTimers>>

\* The connect timeout of connect() call s fires: it destroys this.socket.
ConnectTimeout(s) ==
  /\ sockets[s].ct
  /\ sockets' = Reap(IF socket # 0
                     THEN Destroy([sockets EXCEPT ![s].ct = FALSE], socket)
                     ELSE [sockets EXCEPT ![s].ct = FALSE],
                     socket)
  /\ emitted' = <<>>
  /\ called' = <<Promise("Connection timeout", s)>>
  /\ UNCHANGED idle
  /\ UNCHANGED <<socket, connected, intentionalDisconnect, reconnectAttempts,
                 reconnectTimer, heartbeatTimer, receiveBuffer, qvars, nextReq,
                 promoTimers>>


\* ---------------------------------------------------------- socket events
\* The reply to a volume query, an error reply, and the two halves of a reply.
OkFrame == <<STX, 1, 13, 0, 1, 50, ETX>>
ErrFrame == <<STX, 1, 13, 131, 0, ETX>>
Frames == {OkFrame, ErrFrame}

\* What the device sends in ReceiveSpec: replies with answer codes on both
\* sides of the error floor, a known and an unknown error code, and a reply
\* whose data holds the start and the end byte.
LastOk == <<STX, 1, 13, 129, 0, ETX>>
ZoneInvalid == <<STX, 2, 13, 130, 0, ETX>>
UnknownErr == <<STX, 1, 13, 144, 0, ETX>>
Framed == <<STX, 2, 8, 0, 2, STX, ETX, ETX>>
Replies == {OkFrame, ErrFrame, LastOk, ZoneInvalid, UnknownErr, Framed}

\* The byte streams of up to n replies sent back to back.
RECURSIVE Streams(_)
Streams(n) ==
  IF n = 1 THEN Replies
  ELSE Streams(n - 1) \cup {st \o f : st \in Streams(n - 1), f \in Replies}

\* TCP delivers a stream in chunks cut anywhere: the chunks that continue a
\* stream of replies of which buf is what has arrived and not been consumed.
AllStreams == Streams(MaxFrames)

Chunks(buf) ==
  UNION {{SubSeq(st, Len(buf) + 1, n) : n \in (Len(buf) + 1)..Len(st)} :
           st \in {x \in AllStreams :
                     Len(x) > Len(buf) /\ SubSeq(x, 1, Len(buf)) = buf}}

\* Socket events are modelled on the sockets that still carry the listeners of
\* their connect() call: removeAllListeners() is always followed by destroy(),
\* and an event without a listener runs no code.

\* A 'connect' handler that does not reset the attempt counter.
SocketConnectNoReset(s) ==
  /\ sockets[s].st = "connecting"
  /\ sockets[s].lis
  /\ sockets' = [sockets EXCEPT ![s].st = "open", ![s].ct = FALSE]
  /\ connected' = TRUE
  /\ heartbeatTimer' = startHeartbeat(heartbeatTimer)
  /\ emitted' = <<Ev("connected", 0, 0)>>
  /\ called' = <<Promise("connect resolved", s)>>
  /\ UNCHANGED idle
  /\ UNCHANGED <<socket, intentionalDisconnect, reconnectAttempts, reconnectTimer,
                 receiveBuffer, qvars, nextReq, promoTimers>>

\* 'connect' on the socket of connect() call s.
SocketConnect(s) ==
  /\ sockets[s].st = "connecting"
  /\ sockets[s].lis
  /\ sockets' = [sockets EXCEPT ![s].st = "open", ![s].ct = FALSE]
  /\ connected' = TRUE
  /\ reconnectAttempts' = 0
  /\ heartbeatTimer' = startHeartbeat(heartbeatTimer)
  /\ emitted' = <<Ev("connected", 0, 0)>>
  /\ called' = <<Promise("connect resolved", s)>>
  /\ UNCHANGED idle
  /\ UNCHANGED <<socket, intentionalDisconnect, reconnectTimer, receiveBuffer,
                 qvars, nextReq, promoTimers>>

\* 'data' on the socket of connect() call s.
\* What the 'data' listener computes from the connection's fields when the
\* chunk data arrives.
Received(data) == onData(CurQ, receiveBuffer, promoTimers, data)

\* A socket on which a chunk can arrive.
Readable(s) == sockets[s].st = "open" /\ sockets[s].lis

\* 'data' on the socket of connect() call s, whatever the buffer holds.
DataArrives(s, data) ==
  /\ Readable(s)
  /\ LET R == Received(data)
     IN /\ receiveBuffer' = R.buf
        /\ SetQ(R.S)
        /\ promoTimers' = R.promo
        /\ emitted' = R.em
  /\ UNCHANGED idle
  /\ UNCHANGED <<sockets, socket, connected, intentionalDisconnect,
                 reconnectAttempts, reconnectTimer, heartbeatTimer, nextReq>>

\* 'data' while the bytes received and not consumed stay within MaxBuf.
SocketData(s, data) ==
  /\ Len(receiveBuffer) + Len(data) <= MaxBuf
  /\ DataArrives(s, data)

\* An 'error' handler that also leaves Connected.
SocketErrorDisconnects(s) ==
  /\ sockets[s].st \in {"connecting", "open"}
  /\ sockets[s].lis
  /\ sockets' = [sockets EXCEPT ![s].st = "closing", ![s].ct = FALSE]
  /\ connected' = FALSE
  /\ emitted' = <<Ev("error", 0, 0)>>
  /\ called' = <<>>
  /\ UNCHANGED idle
  /\ UNCHANGED <<socket, intentionalDisconnect, reconnectAttempts,
                 reconnectTimer, heartbeatTimer, receiveBuffer, qvars, nextReq,
                 promoTimers>>

\* 'error' on the socket of connect() call s: the socket is torn down and its
\* 'close' follows.
SocketError(s) ==
  /\ sockets[s].st \in {"connecting", "open"}
  /\ sockets[s].lis
  /\ sockets' = [sockets EXCEPT ![s].st = "closing", ![s].ct = FALSE]
  /\ emitted' = <<Ev("error", 0, 0)>>
  /\ called' = <<>>
  /\ UNCHANGED idle
  /\ UNCHANGED <<socket, connected, intentionalDisconnect, reconnectAttempts,
                 reconnectTimer, heartbeatTimer, receiveBuffer, qvars, nextReq,
                 promoTimers>>

\* 'close' on the socket of connect() call s: the peer ended an open socket, or
\* the socket was destroyed. connect()'s handler runs, then the one disconnect()
\* added, which sets _connected = false again. No listener of a closed socket
\* runs again. attemptCap bounds the attempt counter.
SocketClose(s, attemptCap) ==
  /\ sockets[s].st \in {"open", "closing"}
  /\ sockets[s].lis
  /\ sockets' = Reap([sockets EXCEPT ![s].st = "closed", ![s].lis = FALSE,
                                     ![s].dw = FALSE], socket)
  /\ LET c == onClose(CurQ, connected, heartbeatTimer, intentionalDisconnect,
                      reconnectAttempts, reconnectTimer)
     IN /\ c.attempts <= attemptCap
        /\ SetQ(IF sockets[s].dw
                THEN [c.S EXCEPT !.called = Append(@, Promise("disconnect resolved", s))]
                ELSE c.S)
        /\ connected' = c.connected
        /\ heartbeatTimer' = c.heartbeat
        /\ reconnectAttempts' = c.attempts
        /\ reconnectTimer' = c.timer
        /\ emitted' = c.em
  /\ UNCHANGED idle
  /\ UNCHANGED <<socket, intentionalDisconnect, receiveBuffer, nextReq, promoTimers>>

\* ------------------------------------------------------------ specification
\* One callback of the event loop, with the bounds of the specification.
Step(reqCap, sockCap, attemptCap) ==
  \/ Connect(sockCap)
  \/ Disconnect
  \/ \E k \in 0..MaxWriteFail : Submit(k, reqCap)
  \/ \E r \in Reqs, k \in 0..MaxWriteFail : CommandTimeout(r, k)
  \/ \E k \in 0..MaxWriteFail : Promote(k)
  \/ \E k \in 0..MaxWriteFail : Heartbeat(k, reqCap)
  \/ ReconnectFire(sockCap)
  \/ \E s \in Socks : ConnectTimeout(s)
  \/ \E s \in Socks : SocketConnect(s)
  \/ \E s \in Socks, data \in Frames : SocketData(s, data)
  \/ \E s \in Socks : SocketError(s)
  \/ \E s \in Socks : SocketClose(s, attemptCap)

\* The command queue under one connection at a time.
Next == Step(MaxReq, QueueSock, QueueAttempts)

Spec == Init /\ [][Next]_vars

\* The connection lifecycle with overlapping connect() calls.
LifeNext == Step(LifeReq, MaxSock, MaxAttempts)

LifeSpec == Init /\ [][LifeNext]_vars

\* The reconnect policy alone: no request is submitted and no data arrives.
BackoffNext ==
  \/ Connect(BackoffSock)
  \/ Disconnect
  \/ ReconnectFire(BackoffSock)
  \/ \E s \in Socks : ConnectTimeout(s)
  \/ \E s \in Socks : SocketConnect(s)
  \/ \E s \in Socks : SocketError(s)
  \/ \E s \in Socks : SocketClose(s, MaxBackoff)

BackoffSpec == Init /\ [][BackoffNext]_vars

\* The command queue when every armed command timer eventually fires.
FairNext == Step(FairReq, QueueSock, QueueAttempts)

FairSpec ==
  /\ Init
  /\ [][FairNext]_vars
  /\ \A r \in 1..FairReq : WF_vars(\E k \in 0..MaxWriteFail : CommandTimeout(r, k))

\* The reconnect cycle when armed timers eventually fire.
RetryNext ==
  \/ Connect(RetrySock)
  \/ Disconnect
  \/ ReconnectFire(RetrySock)
  \/ \E s \in Socks : ConnectTimeout(s)
  \/ \E s \in Socks : SocketConnect(s)
  \/ \E s \in Socks : SocketError(s)
  \/ \E s \in Socks : SocketClose(s, RetryAttempts)

RetrySpec ==
  /\ Init
  /\ [][RetryNext]_vars
  /\ WF_vars(ReconnectFire(RetrySock))
  /\ \A s \in Socks : WF_vars(ConnectTimeout(s))

\* testConnection() on a new JblConnection, as the pairing session calls it:
\* nothing else calls the connection. Timers fire, a destroyed socket emits
\* 'close', and a continuation that is ready runs before any callback.
TestNext ==
  \/ TestStart(TestSock)
  \/ \E k \in 0..MaxWriteFail : TestResume(k, TestReq)
  \/ \E r \in Reqs, k \in 0..MaxWriteFail : ~Resumable /\ CommandTimeout(r, k)
  \/ \E k \in 0..MaxWriteFail : ~Resumable /\ Promote(k)
  \/ \E k \in 0..MaxWriteFail : ~Resumable /\ Heartbeat(k, TestReq)
  \/ ~Resumable /\ ReconnectFire(TestSock)
  \/ \E s \in Socks : ~Resumable /\ ConnectTimeout(s)
  \/ \E s \in Socks : ~Resumable /\ SocketConnect(s)
  \/ \E s \in Socks, data \in Frames : ~Resumable /\ SocketData(s, data)
  \/ \E s \in Socks : ~Resumable /\ SocketError(s)
  \/ \E s \in Socks : ~Resumable /\ SocketClose(s, TestAttempts)

TestSpec ==
  /\ Init
  /\ [][TestNext]_vars
  /\ WF_vars(\E k \in 0..MaxWriteFail : TestResume(k, TestReq))
  /\ \A r \in Reqs :
       WF_vars(\E k \in 0..MaxWriteFail : ~Resumable /\ CommandTimeout(r, k))
  /\ WF_vars(~Resumable /\ ReconnectFire(TestSock))
  /\ \A s \in Socks : WF_vars(~Resumable /\ ConnectTimeout(s))
  /\ \A s \in Socks : WF_vars(~Resumable /\ SocketClose(s, TestAttempts))

\* The receive path of one connection: replies arrive in chunks.
ReceiveNext ==
  \/ Connect(RecvSock)
  \/ \E s \in Socks : SocketConnect(s)
  \/ \E k \in 0..MaxWriteFail : Submit(k, RecvReq)
  \/ \E r \in Reqs, k \in 0..MaxWriteFail : CommandTimeout(r, k)
  \/ \E k \in 0..MaxWriteFail : Promote(k)
  \/ \E s \in Socks : \E data \in Chunks(receiveBuffer) : SocketData(s, data)

ReceiveSpec == Init /\ [][ReceiveNext]_vars

\* ------------------------------------------------------ the codec alone
\* The exported functions of the protocol part, each applied once to an
\* argument list: arg is the call, ret what it returned.
Zones == {1, 2}
Cmds == {SIMULATE_RC5, 13, 37}
DataBytes == {0, REQUEST, 255}

RECURSIVE SeqsUpTo(_, _)
SeqsUpTo(B, n) ==
  IF n = 0 THEN {<<>>}
  ELSE SeqsUpTo(B, n - 1) \cup
       {Append(q, b) : q \in SeqsUpTo(B, n - 1), b \in B}

\* Bytes in front of a frame: line noise, with the start and the end byte.
GarbageBytes == {0, STX, ETX}
Garbage == SeqsUpTo(GarbageBytes, MaxGarbage)

\* A reply whose end marker arrived as another byte.
Corrupt == {[f EXCEPT ![Len(f)] = b] : f \in Replies \ {Framed}, b \in {0, STX}}

Buffers ==
  {g \o f : g \in Garbage, f \in Replies} \cup
  {c \o f : c \in Corrupt, f \in Replies}

\* The values handed to encodeSignedValue.
Values == (-MaxValue)..MaxValue

Calls ==
  {[fn |-> "buildCommand", zone |-> z, cmd |-> c, data |-> d] :
     z \in Zones, c \in Cmds, d \in SeqsUpTo(DataBytes, MaxPayload)} \cup
  {[fn |-> "buildQuery", zone |-> z, cmd |-> c] : z \in Zones, c \in Cmds} \cup
  {[fn |-> "buildRC5", zone |-> z, system |-> x, command |-> y] :
     z \in Zones, x \in DataBytes, y \in DataBytes} \cup
  {[fn |-> "parseResponse", buffer |-> b] : b \in Buffers} \cup
  {[fn |-> "parseBuilt", zone |-> z, cmd |-> c, data |-> d] :
     z \in Zones, c \in Cmds, d \in SeqsUpTo(DataBytes, MaxPayload)} \cup
  {[fn |-> "encodeSignedValue", value |-> v] : v \in Values} \cup
  {[fn |-> "decodeEncoded", value |-> v] : v \in Values}

Returns(value) ==
  /\ ret = NoCall
  /\ ret' = [fn |-> arg.fn, value |-> value]
  /\ UNCHANGED <<arg, test>>
  /\ UNCHANGED vars_connection

CallBuildCommand ==
  /\ arg.fn = "buildCommand"
  /\ Returns(buildCommand(arg.zone, arg.cmd, arg.data))

CallBuildQuery ==
  /\ arg.fn = "buildQuery"
  /\ Returns(buildQuery(arg.zone, arg.cmd))

CallBuildRC5 ==
  /\ arg.fn = "buildRC5"
  /\ Returns(buildRC5(arg.zone, arg.system, arg.command))

CallParseResponse ==
  /\ arg.fn = "parseResponse"
  /\ Returns(parseResponse(arg.buffer))

\* parseResponse(buildCommand(zone, cmd, data)): a built command fed to the
\* parser as if the device had echoed it.
CallParseBuilt ==
  /\ arg.fn = "parseBuilt"
  /\ Returns(parseResponse(buildCommand(arg.zone, arg.cmd, arg.data)))

CallEncodeSignedValue ==
  /\ arg.fn = "encodeSignedValue"
  /\ Returns(encodeSignedValue(arg.value))

\* decodeSignedValue(encodeSignedValue(value))
CallDecodeEncoded ==
  /\ arg.fn = "decodeEncoded"
  /\ Returns(decodeSignedValue(encodeSignedValue(arg.value)))

CodecInit == Constructed /\ test = NoTest /\ arg \in Calls /\ ret = NoCall

CodecNext ==
  \/ CallBuildCommand
  \/ CallBuildQuery
  \/ CallBuildRC5
  \/ CallParseResponse
  \/ CallParseBuilt
  \/ CallEncodeSignedValue
  \/ CallDecodeEncoded

CodecSpec == CodecInit /\ [][CodecNext]_vars

\* ------------------------------------------------- a noisy line
\* What one 'data' event carries on a line that corrupts end markers: a
\* reply, or a corrupted reply with the reply sent again behind it.
Arrivals == Replies \cup {c \o f : c \in Corrupt, f \in Replies}

NoisyNext ==
  \/ Connect(RecvSock)
  \/ \E s \in Socks : SocketConnect(s)
  \/ \E k \in 0..MaxWriteFail : Submit(k, RecvReq)
  \/ \E r \in Reqs, k \in 0..MaxWriteFail : CommandTimeout(r, k)
  \/ \E k \in 0..MaxWriteFail : Promote(k)
  \/ \E s \in Socks, data \in Arrivals : SocketData(s, data)

NoisySpec == Init /\ [][NoisyNext]_vars

\* --------------------------------------------- chunks across connections
\* The whole connection with replies arriving in chunks: a connection can
\* end while part of a reply waits in the receive buffer.
ResetNext ==
  \/ Connect(RecvSock)
  \/ Disconnect
  \/ \E k \in 0..MaxWriteFail : Submit(k, RecvReq)
  \/ \E r \in Reqs, k \in 0..MaxWriteFail : CommandTimeout(r, k)
  \/ \E k \in 0..MaxWriteFail : Promote(k)
  \/ \E k \in 0..MaxWriteFail : Heartbeat(k, RecvReq)
  \/ ReconnectFire(RecvSock)
  \/ \E s \in Socks : ConnectTimeout(s)
  \/ \E s \in Socks : SocketConnect(s)
  \/ \E s \in Socks : \E data \in Chunks(receiveBuffer) : SocketData(s, data)
  \/ \E s \in Socks : SocketError(s)
  \/ \E s \in Socks : SocketClose(s, QueueAttempts)

ResetSpec == Init /\ [][ResetNext]_vars

\* ------------------------------------------------------- heartbeat alone
\* The frame the heartbeat interval sends: query(Zone.MASTER, Cmd.HEARTBEAT).
HeartbeatQuery == buildQuery(MASTER, HEARTBEAT)

\* A connection nobody sends on: every request is a heartbeat query, whose
\* rejection startHeartbeat catches and drops.
BeatNext ==
  \/ Connect(QueueSock)
  \/ Disconnect
  \/ \E r \in Reqs, k \in 0..MaxWriteFail : CommandTimeout(r, k)
  \/ \E k \in 0..MaxWriteFail : Promote(k)
  \/ \E k \in 0..MaxWriteFail : Heartbeat(k, FairReq)
  \/ ReconnectFire(QueueSock)
  \/ \E s \in Socks : ConnectTimeout(s)
  \/ \E s \in Socks : SocketConnect(s)
  \/ \E s \in Socks, data \in Frames : SocketData(s, data)
  \/ \E s \in Socks : SocketError(s)
  \/ \E s \in Socks : SocketClose(s, QueueAttempts)

BeatSpec == Init /\ [][BeatNext]_vars

\* ------------------------------------------------------ a flooded line
\* Line noise without a start byte, in blocks, and a reply now and then: what
\* cannot be parsed piles up in the receive buffer.
Zeros(n) == [i \in 1..n |-> 0]

Flood == {Zeros(FloodBlock), Zeros(FloodBlock + 1), OkFrame}

FloodNext ==
  \/ Connect(RecvSock)
  \/ \E s \in Socks : SocketConnect(s)
  \/ \E k \in 0..MaxWriteFail : Submit(k, RecvReq)
  \/ \E r \in Reqs, k \in 0..MaxWriteFail : CommandTimeout(r, k)
  \/ \E k \in 0..MaxWriteFail : Promote(k)
  \/ \E s \in Socks, data \in Flood : DataArrives(s, data)

FloodSpec == Init /\ [][FloodNext]_vars

\* ------------------------------------------------------ frames in bursts
\* The device sends several frames back to back and one 'data' event carries
\* them all: a burst is the sequence of its frames.
\* The frames are a reply, an error reply and a reply whose data holds the start
\* and the end byte.
Bursts == SeqsUpTo({OkFrame, ErrFrame, Framed}, MaxBurst) \ {<<>>}

\* The bytes of a burst.
RECURSIVE Flatten(_)
Flatten(fs) == IF fs = <<>> THEN <<>> ELSE Head(fs) \o Flatten(Tail(fs))

BurstNext ==
  \/ Connect(QueueSock)
  \/ \E s \in Socks : SocketConnect(s)
  \/ \E k \in 0..MaxWriteFail : Submit(k, FairReq)
  \/ \E r \in Reqs, k \in 0..MaxWriteFail : CommandTimeout(r, k)
  \/ \E k \in 0..MaxWriteFail : Promote(k)
  \/ \E s \in Socks, fs \in Bursts : DataArrives(s, Flatten(fs))

BurstSpec == Init /\ [][BurstNext]_vars

\* ------------------------------------------------------------------ claims
Elems(q) == {q[i] : i \in 1..Len(q)}

Submitted(r) == r < nextReq

\* Written to the socket and not yet resolved, rejected or timed out.
Outstanding(r) == r \in Elems(wire) /\ reqs[r].calls = 0

\* The resolve and reject calls of request r in a handler's call log.
CallsOf(cl, r) == SelectSeq(cl, LAMBDA c : c.r = r)

EmitsIn(em, e) == \E i \in 1..Len(em) : em[i].e = e

\* C1: at most one request is written to the socket and not yet settled, and
\* while one is, every request submitted after it that is not settled is still
\* in the queue and has not been written.
C1_OneInFlight ==
  /\ Cardinality({r \in Reqs : Outstanding(r)}) <= 1
  /\ \A r \in Reqs : Outstanding(r) =>
       \A r2 \in Reqs : (r2 > r /\ Submitted(r2) /\ reqs[r2].calls = 0) =>
         (r2 \in Elems(commandQueue) /\ r2 \notin Elems(wire))

\* Three requests submitted while connected and no frame yet: the first is in
\* flight, the second and third are queued.
C1_Witness ==
  /\ connected
  /\ wire = <<1>>
  /\ currentCommand = 1
  /\ commandQueue = <<2, 3>>
  /\ promoTimers = 0

\* C2: requests are written to the socket in the order they were submitted:
\* the ids on the wire, which are handed out in submission order, only grow.
C2_Fifo ==
  \A i, j \in 1..Len(wire) : i < j => wire[i] < wire[j]

\* All three requests have been written, one after the other.
C2_Witness == Len(wire) = 3

\* C3: the callbacks of a request are invoked at most once in total, and the
\* timer of a settled request is not armed, so it never fires afterwards.
C3_SettledOnce ==
  \A r \in Reqs : reqs[r].calls <= 1 /\ (reqs[r].calls >= 1 => ~reqs[r].timer)

\* A request was settled by a frame, another one by its timer, and the drain
\* of a socket close has just rejected the third.
C3_Witness ==
  /\ \A r \in Reqs : reqs[r].calls = 1
  /\ Len(called) = 1
  /\ called[1].what = "Connection closed"
  /\ Len(wire) = 3

\* C4: every submitted request is eventually resolved or rejected, in whatever
\* connection state it was submitted, when armed timers eventually fire.
C4_EventuallySettled ==
  \A r \in Reqs : Submitted(r) ~> (reqs[r].calls >= 1)

\* A request submitted after disconnect(), with no socket, was never written
\* and has just been rejected by its timer.
C4_Witness ==
  /\ intentionalDisconnect
  /\ socket = 0
  /\ ~connected
  /\ wire = <<>>
  /\ called = <<[r |-> 1, what |-> "Command timeout"]>>

\* No resolve or reject of a request that was settled before this handler.
NoLaterCall(r) == reqs[r].calls >= 1 => CallsOf(called', r) = <<>>

\* C5: a request whose timer fires is rejected, once, with the timeout error,
\* and no callback of it is invoked by any later handler: no frame that
\* arrives afterwards resolves it.
C5_TimeoutFinal ==
  [][\A r \in Reqs :
       /\ (\E k \in 0..MaxWriteFail : CommandTimeout(r, k)) =>
            CallsOf(called', r) = <<[r |-> r, what |-> "Command timeout"]>>
       /\ NoLaterCall(r)]_vars

\* The in-flight request has just been rejected by its timer.
C5_Witness ==
  /\ wire = <<1>>
  /\ connected
  /\ currentCommand = 0
  /\ called = <<[r |-> 1, what |-> "Command timeout"]>>

\* The last handler was the timer of a request that had been written.
TimedOutInFlight ==
  \E i \in 1..Len(called) :
    called[i].what = "Command timeout" /\ called[i].r \in Elems(wire)

\* C6: after the in-flight request has been rejected by its timer, a frame
\* that arrives is emitted as 'status' and settles no request.
C6_LateFrameIsStatus ==
  [][(TimedOutInFlight /\ \E s \in Socks, data \in Frames : SocketData(s, data))
       => (called' = <<>> /\ EmitsIn(emitted', "status"))]_vars

\* What rejectPending rejects with.
DisconnectClass == {"Disconnecting", "Connection closed"}

Drained ==
  /\ commandQueue' = <<>>
  /\ currentCommand' = 0
  /\ \A r \in Elems(commandQueue) \cup ({currentCommand} \ {0}) :
       /\ Len(CallsOf(called', r)) = 1
       /\ CallsOf(called', r)[1].what \in DisconnectClass
       /\ reqs'[r].calls = 1

\* C7: disconnect() and a socket close reject every queued and in-flight
\* request exactly once with a disconnect-class error and leave the queue and
\* the in-flight slot empty; no request settled before is called again.
C7_Drain ==
  [][/\ (Disconnect \/ \E s \in Socks : SocketClose(s, MaxBackoff)) => Drained
     /\ \A r \in Reqs : (reqs[r].calls >= 1 /\ ~reqs[r].timer) =>
          (reqs'[r].calls = reqs[r].calls /\ ~reqs'[r].timer)]_vars

\* disconnect() has just rejected three requests, one of them written.
C7_Witness ==
  /\ intentionalDisconnect
  /\ wire = <<1>>
  /\ Len(called) = 3
  /\ \A i \in 1..3 : called[i].what = "Disconnecting"
  /\ commandQueue = <<>>
  /\ currentCommand = 0

\* The delay of the n-th consecutive reconnect, as the claim lists them.
ExpectedDelay(n) ==
  IF n <= 5 THEN <<3000, 6000, 12000, 24000, 48000>>[n] ELSE 60000

\* The last handler ran scheduleReconnect.
Scheduled(em) == EmitsIn(em, "reconnecting")

Reconnecting(em) == em[Len(em)]

\* C8: the n-th reconnect scheduled without a successful connect in between
\* is delayed by base * 2^(n-1) capped at max: 3000, 6000, 12000, 24000, 48000,
\* 60000, 60000, ...; the counter moves only when a reconnect is scheduled (by
\* one) or a connect succeeds (to 0); no timer is armed with more than max.
C8_Backoff ==
  [][/\ Scheduled(emitted') =>
          /\ reconnectAttempts' = reconnectAttempts + 1
          /\ reconnectTimer' =
               [st |-> "armed", delay |-> ExpectedDelay(reconnectAttempts + 1)]
          /\ Reconnecting(emitted').delay = ExpectedDelay(reconnectAttempts + 1)
     /\ reconnectAttempts' # reconnectAttempts =>
          \/ Scheduled(emitted')
          \/ reconnectAttempts' = 0 /\ EmitsIn(emitted', "connected")
     /\ reconnectTimer'.delay <= 60000]_vars

\* The seventh reconnect in a row has been scheduled: the second one at max.
C8_Witness ==
  /\ reconnectAttempts = 7
  /\ reconnectTimer = [st |-> "armed", delay |-> 60000]
  /\ Scheduled(emitted)

\* C9: a successful connect sets the attempt counter to 0, and the reconnect
\* scheduled when that connection closes, like any scheduled from a counter of
\* 0, is attempt 1 with the base delay.
C9_ResetOnConnect ==
  [][/\ (\E s \in Socks : SocketConnect(s)) => reconnectAttempts' = 0
     /\ connected => reconnectAttempts = 0
     /\ (Scheduled(emitted') /\
         (reconnectAttempts = 0 \/ EmitsIn(emitted', "disconnected"))) =>
          /\ Reconnecting(emitted').attempt = 1
          /\ Reconnecting(emitted').delay = 3000
          /\ reconnectTimer'.delay = 3000]_vars

\* An established connection has closed and its reconnect is scheduled.
C9_Witness ==
  emitted = <<Ev("disconnected", 0, 0), Ev("reconnecting", 1, 3000)>>

\* C10: from disconnect() until the caller calls connect() again, no reconnect
\* is scheduled, no reconnect timer is armed or fires, and only the caller's
\* connect() ends that period.
C10_NoAutoReconnect ==
  [][intentionalDisconnect =>
       /\ reconnectTimer.st # "armed"
       /\ reconnectTimer'.st # "armed"
       /\ ~Scheduled(emitted')
       /\ ~ReconnectFire(MaxSock)
       /\ intentionalDisconnect' \/ Connect(MaxSock)]_vars

\* disconnect() was called after failed attempts, and every socket has closed.
C10_Witness ==
  /\ intentionalDisconnect
  /\ reconnectAttempts >= 1
  /\ socket = 0
  /\ \A s \in Socks : sockets[s].st = "free"

\* The reconnect timer is pending.
Armed == reconnectTimer.st = "armed"

\* this.socket has not emitted 'close' yet.
SocketAlive ==
  socket # 0 /\ sockets[socket].st \in {"connecting", "open", "closing"}

\* A connect attempt is under way on this.socket.
Connecting == socket # 0 /\ sockets[socket].st = "connecting"

\* C11: a 'close' handler that runs without the intentional flag schedules a
\* reconnect, whether or not the socket had connected; a pending reconnect
\* timer goes away only by firing, which starts a connect attempt, or by
\* disconnect(); while one is pending, eventually it has gone that way or the
\* caller has started an attempt; and when the flag is not set after a
\* connect() call, this.socket is still to close or a reconnect is pending.
C11_ReconnectAfterLoss ==
  /\ [][/\ ((\E s \in Socks : SocketClose(s, MaxBackoff)) /\ ~intentionalDisconnect)
            => (Armed' /\ Scheduled(emitted'))
        /\ (Armed /\ ~Armed') =>
             \/ Disconnect
             \/ /\ ReconnectFire(MaxSock)
                /\ socket' # 0
                /\ sockets'[socket'].st = "connecting"]_vars
  /\ Armed ~> (~Armed \/ Connecting)
  /\ [](( ~intentionalDisconnect /\ socket # 0) => (SocketAlive \/ Armed))

\* Two attempts in a row have failed, and the timer has started the third.
C11_Witness ==
  /\ reconnectAttempts = 2
  /\ ~Armed
  /\ ~connected
  /\ ~intentionalDisconnect
  /\ socket # 0
  /\ sockets[socket].st = "connecting"

\* The last handler resolved or rejected a connect() or disconnect() promise
\* with `what`.
Settled(cl, what) == \E i \in 1..Len(cl) : cl[i].r = 0 /\ cl[i].what = what

\* C12: every disconnect() call resolves: in the call itself, or by the 'close'
\* listener it leaves on a socket that is still to emit 'close' (a socket emits
\* 'close' once, so a listener added after it never runs).
C12_DisconnectResolves ==
  [][Disconnect =>
       \/ Settled(called', "disconnect resolved")
       \/ \E s \in Socks : sockets'[s].dw /\ sockets'[s].st = "closing"]_vars

\* The last handler resolved or rejected the promise of connect() call s.
ConnectSettled(cl, s) ==
  \E i \in 1..Len(cl) :
    /\ cl[i].r = 0
    /\ cl[i].sock = s
    /\ cl[i].what \in {"connect resolved", "Connection timeout"}

\* C13: the promise of a connect() call is resolved by the 'connect' handler,
\* which clears the connect timer, or rejected by that timer, and by nothing
\* else; so it is pending while the timer is armed, and every handler that
\* clears the timer or runs as its callback settles the promise.
C13_ConnectSettles ==
  [][\A s \in Socks :
       (sockets[s].ct /\ ~sockets'[s].ct) => ConnectSettled(called', s)]_vars

\* C14: a testConnection() call eventually returns, whatever the connect
\* attempt and the heartbeat query come to.
C14_TestReturns == (test.pc = "connect") ~> (test.pc = "done")

\* A whole frame stands at the head of buf: five bytes, the declared data and
\* the end byte.
HasFrame(buf) == Len(buf) >= 6 /\ Len(buf) >= 6 + buf[5]

HeadFrame(buf) == SubSeq(buf, 1, 6 + buf[5])

\* The response a frame [START, zone, command, answer, length, data..., END]
\* stands for.
Carried(f) ==
  [zone |-> f[2], command |-> f[3], answer |-> f[4],
   data |-> SubSeq(f, 6, Len(f) - 1)]

\* The messages the claim names for the error codes the device sends here.
ClaimedMessage(answer) ==
  CASE answer = 130 -> "Zone invalid"
    [] answer = 131 -> "Command not recognised"
    [] answer = 144 -> "Unknown error (0x90)"

\* The connection is as it was: this.socket, its state, the connected flag and
\* the reconnect timer.
StaysConnected ==
  /\ connected' = connected
  /\ socket' = socket
  /\ sockets' = sockets
  /\ reconnectTimer' = reconnectTimer
  /\ reconnectAttempts' = reconnectAttempts
  /\ ~Scheduled(emitted')
  /\ ~EmitsIn(emitted', "disconnected")

\* A request was settled by a reply in the step: resolved, or rejected with
\* the message of an error code.
ReplyOutcomes == {"resolved"} \cup {errorMessage(a) : a \in ErrorFloor..255}

Replied(cl) == \E i \in DOMAIN cl : cl[i].r # 0 /\ cl[i].what \in ReplyOutcomes

\* C15: when a frame arrives while a request is in flight, an answer byte of
\* 0x82 or more rejects that request with the message of the code (0x83:
\* command not recognised; 0x90, unknown: the generic message with the code),
\* a lower one resolves it; and a step in which a reply settles a request
\* leaves the connection as it was: connected, the socket open, no reconnect
\* scheduled.
C15_ErrorReply ==
  /\ [](\A data \in Chunks(receiveBuffer) :
          (/\ currentCommand # 0
           /\ \E s \in Socks : Readable(s)
           /\ Len(receiveBuffer) + Len(data) <= MaxBuf
           /\ HasFrame(receiveBuffer \o data)) =>
             LET answer == HeadFrame(receiveBuffer \o data)[4]
                 R == Received(data)
             IN /\ R.S.called # <<>>
                /\ R.S.called[1].r = currentCommand
                /\ R.S.called[1].what =
                     (IF answer >= 130 THEN ClaimedMessage(answer)
                      ELSE "resolved")
                /\ R.S.rq[currentCommand].calls = 1)
  /\ [][Replied(called') => (connected /\ connected' /\ StaysConnected)]_vars

\* An unknown error code has just rejected the in-flight request.
C15_Witness ==
  /\ connected
  /\ called = <<[r |-> 1, what |-> "Unknown error (0x90)"]>>
  /\ socket # 0
  /\ sockets[socket].st = "open"

\* C17: when a request is in flight and a well-formed frame with a non-error
\* answer arrives, the request resolves with exactly the zone, command,
\* answer and data bytes of that frame, and the in-flight slot is cleared.
C17_ReplyResolves ==
  \A data \in Chunks(receiveBuffer) :
    (/\ currentCommand # 0
     /\ \E s \in Socks : Readable(s)
     /\ Len(receiveBuffer) + Len(data) <= MaxBuf
     /\ HasFrame(receiveBuffer \o data)
     /\ HeadFrame(receiveBuffer \o data)[4] < ErrorFloor) =>
       LET R == Received(data) IN
       /\ R.S.called # <<>>
       /\ R.S.called[1] = [r |-> currentCommand, what |-> "resolved",
                           resp |-> Carried(HeadFrame(receiveBuffer \o data))]
       /\ R.S.rq[currentCommand].calls = 1
       /\ R.S.cur = 0

\* The reply [START, 0x01, 0x0D, 0x00, 0x01, 0x32, END] has just resolved the
\* request in flight with the data byte 0x32.
C17_Witness ==
  /\ called = <<[r |-> 1, what |-> "resolved",
                 resp |-> [zone |-> 1, command |-> 13, answer |-> 0,
                           data |-> <<50>>]]>>
  /\ currentCommand = 0
  /\ receiveBuffer = <<>>

\* A truncated frame: a start byte followed by fewer bytes than the minimum
\* frame size or than the declared data length requires.
Truncated(buf) ==
  /\ buf # <<>>
  /\ buf[1] = STX
  /\ (Len(buf) < MinFrame \/ Len(buf) < MinFrame + buf[5])

\* The frame at the head of buf was handed on: to the request r in flight, or
\* as a status update when none was.
Delivered(R, r, buf) ==
  IF r # 0 THEN R.S.called # <<>> /\ R.S.called[1].r = r
  ELSE R.em # <<>> /\ R.em[1] = Status(Carried(HeadFrame(buf)))

C16_Builders ==
  ret # NoCall =>
    CASE arg.fn = "buildCommand" ->
           ret.value = <<33, arg.zone, arg.cmd, Len(arg.data)>> \o arg.data \o <<13>>
      [] arg.fn = "buildQuery" ->
           /\ ret.value = <<33, arg.zone, arg.cmd, 1, 240, 13>>
           /\ ret.value = buildCommand(arg.zone, arg.cmd, <<240>>)
           /\ (arg.zone = 1 /\ arg.cmd = 13) => ret.value = <<33, 1, 13, 1, 240, 13>>
      [] arg.fn = "buildRC5" ->
           /\ ret.value = <<33, arg.zone, 8, 2, arg.system, arg.command, 13>>
           /\ ret.value = buildCommand(arg.zone, 8, <<arg.system, arg.command>>)
      [] OTHER -> TRUE

\* buildQuery(MASTER, VOLUME) has returned.
C16_Witness ==
  /\ arg = [fn |-> "buildQuery", zone |-> 1, cmd |-> 13]
  /\ ret = [fn |-> "buildQuery", value |-> <<33, 1, 13, 1, 240, 13>>]

\* What parseResponse returns for a buffer whose frame f ends the buffer.
Locates(result, buffer, f) ==
  /\ result.found
  /\ Response(result) = Carried(f)
  /\ result.bytesConsumed = Len(buffer)

\* C18: for a buffer made of garbage bytes followed by one well-formed frame,
\* parseResponse returns that frame, with bytesConsumed equal to the garbage
\* length plus the frame length, whatever the garbage holds.
C18_GarbageSkipped ==
  (ret # NoCall /\ arg.fn = "parseResponse") =>
    \A g \in Garbage, f \in Replies :
      arg.buffer = g \o f => Locates(ret.value, arg.buffer, f)

\* C20: when the byte at the computed end of a frame is not the end marker,
\* parseResponse goes on one byte past the start byte of that frame and
\* returns the well-formed frame that lies later in the buffer.
C20_CorruptSkipped ==
  (ret # NoCall /\ arg.fn = "parseResponse") =>
    \A c \in Corrupt, f \in Replies :
      arg.buffer = c \o f =>
        /\ ret.value = parseResponse(SubSeq(arg.buffer, 2, Len(arg.buffer)))
        /\ ret.value.found
        /\ Response(ret.value) = Carried(f)

\* C21: parseResponse(buildCommand(zone, command, payload)) returns a frame
\* with exactly that zone, command and payload.
C21_RoundTrip ==
  (ret # NoCall /\ arg.fn = "parseBuilt") =>
    /\ ret.value.found
    /\ ret.value.zone = arg.zone
    /\ ret.value.command = arg.cmd
    /\ ret.value.data = arg.data

\* C22: each well-formed frame received is handed on exactly once, to the
\* request in flight or as a 'status' event, and the receive buffer is
\* shortened by exactly the bytes up to and including the end byte of the
\* frame, also when the frame lies behind a corrupt frame: with nothing left
\* over from earlier events, a data event that ends with the end byte of a
\* well-formed frame hands on that frame, once, and leaves the buffer empty.
C22_DeliveredOnce ==
  [][\A s \in Socks, data \in Arrivals :
       (receiveBuffer = <<>> /\ SocketData(s, data)) =>
         LET f == CHOOSE f \in Replies :
                    data = f \/ \E c \in Corrupt : data = c \o f
         IN /\ Len(called') + Len(emitted') = 1
            /\ IF currentCommand # 0
               THEN called'[1].r = currentCommand /\ currentCommand' = 0
               ELSE emitted' = <<Status(Carried(f))>>
            /\ receiveBuffer' = <<>>]_vars

\* C23: after every disconnect, a socket close event or a disconnect() call,
\* the connection state is reset: the receive buffer is empty, the heartbeat
\* timer is cancelled, the queue is empty and no request is in flight.
C23_ResetOnDisconnect ==
  [][(Disconnect \/ \E s \in Socks : SocketClose(s, QueueAttempts)) =>
       /\ receiveBuffer' = <<>>
       /\ ~heartbeatTimer'.armed
       /\ commandQueue' = <<>>
       /\ currentCommand' = 0]_vars

C25_StatusOrReply ==
  \A data \in Chunks(receiveBuffer) :
    LET buf == receiveBuffer \o data IN
    (/\ \E s \in Socks : Readable(s)
     /\ Len(buf) <= MaxBuf
     /\ HasFrame(buf)
     /\ ~HasFrame(SubSeq(buf, Len(HeadFrame(buf)) + 1, Len(buf)))) =>
       LET R == Received(data) IN
       IF currentCommand = 0
       THEN /\ R.em = <<Status(Carried(HeadFrame(buf)))>>
            /\ R.S = CurQ
            /\ R.promo = promoTimers
       ELSE /\ R.em = <<>>
            /\ Len(R.S.called) = 1
            /\ R.S.called[1].r = currentCommand
            /\ R.S.rq[currentCommand].calls = 1
            /\ R.S.q = commandQueue

\* A frame has just been emitted as 'status' while a request waits in the
\* queue of a connected connection with nothing in flight.
C25_Witness ==
  /\ emitted = <<Status(Carried(OkFrame))>>
  /\ called = <<>>
  /\ connected
  /\ currentCommand = 0
  /\ commandQueue = <<1>>
  /\ reqs[1] = [timer |-> TRUE, calls |-> 0]

\* A request is rejected in the step.
Rejects(cl) == \E i \in 1..Len(cl) : cl[i].r # 0 /\ cl[i].what # "resolved"

\* C26: a heartbeat query that is rejected changes nothing in the connection
\* state: apart from a socket close and a disconnect() call, which drain the
\* queue themselves, a step that rejects a heartbeat query leaves the
\* connected flag, the socket, the reconnect timer and the attempt counter
\* unchanged, emits no 'error' and no 'disconnected' and schedules no
\* reconnect.
C26_HeartbeatSwallowed ==
  [][(/\ Rejects(called')
      /\ ~(Disconnect \/ \E s \in Socks : SocketClose(s, MaxBackoff))) =>
        /\ UNCHANGED <<connected, socket, sockets, reconnectTimer,
                       reconnectAttempts, intentionalDisconnect>>
        /\ ~EmitsIn(emitted', "error")
        /\ ~EmitsIn(emitted', "disconnected")
        /\ ~Scheduled(emitted')]_vars

\* The heartbeat query in flight has just timed out on a connection that is
\* still connected, with its heartbeat running and no reconnect pending.
C26_Witness ==
  /\ called = <<[r |-> 1, what |-> "Command timeout"]>>
  /\ wire = <<1>>
  /\ connected
  /\ heartbeatTimer.armed
  /\ reconnectTimer = NullTimer
  /\ sockets[socket].st = "open"

\* C27: after a frame has resolved or rejected a request, no request is
\* written to the socket until the promotion delay has elapsed: while a
\* promotion timer is pending, only a step in which one fires writes.
C27_PromotionDelay ==
  [][(promoTimers > 0 /\ wire' # wire) => promoTimers' < promoTimers]_vars

\* The connection is Connected: the flag is set and this.socket is open.
Up == connected /\ socket # 0 /\ sockets[socket].st = "open"

\* C28: a request that waits in the queue when the connection is Connected
\* with nothing in flight and no promotion pending is written to the socket,
\* as long as the connection lasts, without a further submission: that state
\* leads to the request being on the wire.
C28_QueuedIsWritten ==
  \A r \in 1..FairReq :
    (/\ Up
     /\ currentCommand = 0
     /\ promoTimers = 0
     /\ r \in Elems(commandQueue))
      ~> (r \in Elems(wire) \/ ~Up)

\* C29: after every data event the receive buffer holds at most 1024 bytes:
\* bytes that hold no frame are kept while they are at most 1024 and are
\* discarded, all of them, once they are more.
C29_BufferCeiling ==
  /\ Len(receiveBuffer) <= 1024
  /\ \A data \in Flood :
       LET buf == receiveBuffer \o data IN
       ((\E s \in Socks : Readable(s)) /\ IndexOf(buf, STX) = 0) =>
         Received(data).buf = (IF Len(buf) > 1024 THEN <<>> ELSE buf)

\* The receive buffer holds exactly 1024 bytes of noise.
C29_Witness ==
  /\ Len(receiveBuffer) = 1024
  /\ IndexOf(receiveBuffer, STX) = 0

\* The reconnect timers that are pending: the one this.reconnectTimer refers
\* to and those it no longer refers to.
PendingReconnects ==
  (IF reconnectTimer.st = "armed" THEN 1 ELSE 0) + Stale(reconnectTimer)

\* C30: each scheduled reconnect increments the attempt counter by one and
\* emits exactly one 'reconnecting' event carrying the new attempt number and
\* the delay the timer is armed with; the counter grows and a timer is armed
\* only then; the connect attempt starts when that timer fires, in a later
\* step than the event; at most one reconnect timer is pending at any time.
C30_ReconnectingEvent ==
  /\ [][/\ Scheduled(emitted') <=>
            (reconnectAttempts' # reconnectAttempts /\ reconnectAttempts' # 0)
        /\ Scheduled(emitted') =>
            /\ reconnectAttempts' = reconnectAttempts + 1
            /\ SelectSeq(emitted', LAMBDA ev : ev.e = "reconnecting") =
                 <<Ev("reconnecting", reconnectAttempts', reconnectTimer'.delay)>>
            /\ reconnectTimer'.st = "armed"
        /\ (reconnectTimer'.st = "armed" /\ reconnectTimer' # reconnectTimer) =>
            Scheduled(emitted')
        /\ ReconnectFire(BackoffSock) =>
            (reconnectTimer.st = "armed" /\ ~Scheduled(emitted'))]_vars
  /\ [](PendingReconnects <= 1)

\* The second reconnect in a row has just been scheduled: attempt 2, armed
\* with the delay of 6000 ms that the event carries.
C30_Witness ==
  /\ Scheduled(emitted)
  /\ Reconnecting(emitted) = Ev("reconnecting", 2, 6000)
  /\ reconnectAttempts = 2
  /\ reconnectTimer = [st |-> "armed", delay |-> 6000]

\* C31: 'disconnected' is emitted only by a handler that found the connection
\* Connected, and 'connected' and 'disconnected' alternate, 'connected'
\* first. The connected flag is set only by the handler that emits
\* 'connected' and is cleared by every handler that emits 'disconnected', so
\* while it is set the last of the two events was 'connected': 'connected' is
\* emitted only while the flag is clear.
C31_EventsAlternate ==
  [][/\ EmitsIn(emitted', "disconnected") => connected
     /\ EmitsIn(emitted', "connected") => ~connected]_vars

\* C32: the connect timeout of one connect() call never destroys the socket
\* of a later connect() call: when a connect timeout fires while the
\* connection is Connected, the socket of the connection stays open.
C32_TimeoutSparesLaterSocket ==
  [][\A s \in Socks :
       (Up /\ ConnectTimeout(s)) => sockets'[socket].st = "open"]_vars

\* C33: no reconnect timer is pending while the connection is Connected, so
\* the reconnect timer never calls connect() on an established connection.
C33_NoReconnectWhileConnected ==
  /\ [](Up => PendingReconnects = 0)
  /\ [][ReconnectFire(MaxSock) => ~Up]_vars

\* C34: a request is resolved only with a frame that carries the zone and
\* the command of the request in flight. On a connection whose only requests
\* are the heartbeat queries, every response a request is resolved with
\* carries the zone and the command of the heartbeat query.
C34_ReplyMatchesRequest ==
  \A i \in 1..Len(called) :
    (called[i].r # 0 /\ called[i].what = "resolved") =>
      /\ called[i].resp.zone = HeartbeatQuery[2]
      /\ called[i].resp.command = HeartbeatQuery[3]

\* What the 'data' listener computes when the chunk data arrives in two
\* 'data' events, cut after its first n bytes, with nothing in between.
ReceivedSplit(data, n) ==
  LET first == Received(SubSeq(data, 1, n))
      second == onData(first.S, first.buf, first.promo,
                       SubSeq(data, n + 1, Len(data)))
  IN [second EXCEPT !.em = first.em \o second.em]

\* C35: the frames delivered, to requests or as 'status' events, do not
\* depend on how the byte stream is cut into data events: whatever has been
\* received, a chunk delivered in one data event and the same chunk delivered
\* in two, cut anywhere, settle the same requests with the same frames and
\* emit the same 'status' events in the same order.
C35_ChunkingIrrelevant ==
  \A data \in Flood : \A n \in 1..(Len(data) - 1) :
    (\E s \in Socks : Readable(s)) =>
      /\ ReceivedSplit(data, n).S.called = Received(data).S.called
      /\ ReceivedSplit(data, n).em = Received(data).em

\* C36: while the connected flag is false no request is in flight, and a
\* request is written to the socket only by a handler that runs while the
\* flag is true and this.socket is set, so never after disconnect() has
\* dropped the socket.
C36_NoWriteUnconnected ==
  /\ [](~connected => currentCommand = 0)
  /\ [][wire' # wire => (connected /\ socket # 0)]_vars

\* A request submitted after disconnect() has dropped the socket and before
\* the socket's 'close': the flag is still true, and the request waits
\* unwritten.
C36_Witness ==
  /\ connected
  /\ socket = 0
  /\ commandQueue # <<>>
  /\ currentCommand = 0
  /\ wire = <<>>

\* The heartbeat intervals that are running: the one this.heartbeatTimer
\* refers to and those it no longer refers to.
RunningHeartbeats ==
  (IF heartbeatTimer.armed THEN 1 ELSE 0) + heartbeatTimer.stale

\* C37: a heartbeat interval runs only while the connected flag is true, and
\* at most one runs at any time.
C37_OneHeartbeat ==
  /\ RunningHeartbeats <= 1
  /\ RunningHeartbeats > 0 => connected

\* connect() has been called on a connection that is Connected with its
\* heartbeat running: the 'connect' event of the new socket will start the
\* heartbeat again.
C37_Witness ==
  /\ connected
  /\ heartbeatTimer.armed
  /\ socket # 0
  /\ sockets[socket].st = "connecting"

\* C38: one data event settles at most one request. When a data event
\* carries several complete frames and a request is in flight, the first
\* frame settles that request, every further frame is emitted as a 'status'
\* event, in order, and nothing is written: the next request stays in the
\* queue behind a promotion timer. With no request in flight every frame is a
\* 'status' event.
C38_OneRequestPerEvent ==
  \A fs \in Bursts :
    ((\E s \in Socks : Readable(s)) /\ receiveBuffer = <<>>) =>
      LET R == Received(Flatten(fs))
          first == Carried(fs[1])
      IN IF currentCommand # 0
         THEN /\ Len(R.S.called) = 1
              /\ R.S.called[1].r = currentCommand
              /\ IF first.answer >= 130
                 THEN R.S.called[1].what = errorMessage(first.answer)
                 ELSE /\ R.S.called[1].what = "resolved"
                      /\ R.S.called[1].resp = first
              /\ R.em = [i \in 1..(Len(fs) - 1) |-> Status(Carried(fs[i + 1]))]
              /\ R.S.cur = 0
              /\ R.S.wire = wire
              /\ R.S.q = commandQueue
              /\ R.promo = promoTimers + 1
         ELSE /\ R.S = CurQ
              /\ R.em = [i \in 1..Len(fs) |-> Status(Carried(fs[i]))]
              /\ R.promo = promoTimers

\* A data event with two frames has just been handled while request 1 was in
\* flight and request 2 waited: the first frame resolved request 1, the
\* second was emitted as 'status', and request 2 still waits.
C38_Witness ==
  /\ Len(called) = 1
  /\ called[1].r = 1
  /\ called[1].what = "resolved"
  /\ Len(emitted) = 1
  /\ emitted[1].e = "status"
  /\ commandQueue = <<2>>
  /\ currentCommand = 0
  /\ wire = <<1>>

\* C39: for every integer v from -127 to 127, decoding the encoding of v
\* gives v back; a value that is not negative encodes as itself (0x00 to 0x0C
\* for +0 to +12) and a negative value as 0x80 plus its magnitude (0x81 to
\* 0x8C for -1 to -12).
C39_SignedRoundTrip ==
  (ret # NoCall /\ arg.fn \in {"encodeSignedValue", "decodeEncoded"}
     /\ arg.value >= -127 /\ arg.value <= 127) =>
    /\ arg.fn = "decodeEncoded" => ret.value = arg.value
    /\ (arg.fn = "encodeSignedValue" /\ arg.value >= 0) => ret.value = arg.value
    /\ (arg.fn = "encodeSignedValue" /\ arg.value < 0) =>
         ret.value = 128 - arg.value
    /\ (arg.fn = "encodeSignedValue" /\ arg.value \in 0..12) =>
         ret.value \in 0..12
    /\ (arg.fn = "encodeSignedValue" /\ arg.value \in (-12)..(-1)) =>
         ret.value \in 129..140

\* -127, the negative end of the range, has been encoded and decoded again.
C39_Witness ==
  /\ arg = [fn |-> "decodeEncoded", value |-> -127]
  /\ ret = [fn |-> "decodeEncoded", value |-> -127]

=============================================================================
